---- MODULE Spec2Model ----
(***************************************************************************)
(* Carlini & Wagner L_2 and L_inf attacks (art/attacks/carlini.py).        *)
(*                                                                         *)
(* One batch of 1-D samples is processed by `generate`.  The classifier is *)
(* an external, deterministic oracle: the logits it returns for an input   *)
(* are chosen when the input is first queried and remembered (predict),    *)
(* and so is the descent direction derived from its class gradients        *)
(* (gradient).                                                             *)
(*                                                                         *)
(* Number representation (TLC integers are 32-bit):                        *)
(*  - inputs x and clip values are integers in input units;                *)
(*  - candidates x_adv are exact rationals with denominator 2*10^6*s       *)
(*    (s = _tanh_smoother), stored as their numerator ("xn");              *)
(*  - tanh space is the grid of multiples of g = arctanh(s)/7, so that the *)
(*    centre and both ends of a box are grid points; tanh is tabulated on  *)
(*    the grid to 6 decimals;                                              *)
(*  - c is an integer number of c units; a loss c*margin + l2dist is the   *)
(*    pair [cm, dist] standing for cm*MarginWeight + dist.                 *)
(***************************************************************************)
EXTENDS Integers, Sequences, FiniteSets, TLC

\* ------------------------------------------------------------------ bounds
MaxIter == 2
MaxBSS == 2
MaxHalving == 2
MaxDoubling == 1
MaxWork == 2
NSamples == 2

Samples == 1..NSamples

\* ------------------------------------------------------- program constants
\* _tanh_smoother = 0.999999, times 10^6
TanhSmoother6 == 999999
\* _c_upper_bound = 10e10, in c units (one c unit is 1000)
CUpperBound == 100000000

\* ------------------------------------------------------------ arithmetic
Abs(n) == IF n < 0 THEN -n ELSE n

Max2(a, b) == IF a >= b THEN a ELSE b

Min2(a, b) == IF a <= b THEN a ELSE b

Pow2(n) == IF n <= 0 THEN 1 ELSE 2 ^ n

\* n / m rounded to the nearest integer (m > 0)
RoundDiv(n, m) == IF n >= 0 THEN (2 * n + m) \div (2 * m)
                  ELSE -((2 * (-n) + m) \div (2 * m))

\* np.clip
Clip(v, lo, hi) == Max2(lo, Min2(v, hi))

SeqSum(s) == LET RECURSIVE F(_)
                 F(k) == IF k = 0 THEN 0 ELSE s[k] + F(k - 1)
             IN F(Len(s))

SeqMax(s) == CHOOSE m \in {s[k] : k \in 1..Len(s)} :
                 \A k \in 1..Len(s) : s[k] <= m

SeqMin(s) == CHOOSE m \in {s[k] : k \in 1..Len(s)} :
                 \A k \in 1..Len(s) : s[k] >= m

\* np.argmax: the first index holding the maximum
ArgMax(s) == CHOOSE k \in 1..Len(s) :
                 /\ s[k] = SeqMax(s)
                 /\ \A j \in 1..(k - 1) : s[j] < s[k]

\* ------------------------------------------------------- space transform
\* 10^6 * tanh(k*g) for k = 0..7; beyond that tanh is 1 to 6 decimals
TanhTable == <<776436, 968817, 996021, 999498, 999937, 999992, 999999>>

Tanh6(u) == IF u = 0 THEN 0
            ELSE IF u > 0 THEN (IF u <= 7 THEN TanhTable[u] ELSE 1000000)
            ELSE (IF u >= -7 THEN -TanhTable[-u] ELSE -1000000)

\* numerator of an input value
XN(x) == 2 * TanhSmoother6 * x

\* grid point whose tanh is nearest to v6 / 10^6
ArcTanhGrid(v6) == CHOOSE u \in -7..7 :
                      \A w \in -7..7 :
                          \/ Abs(Tanh6(u) - v6) < Abs(Tanh6(w) - v6)
                          \/ (Abs(Tanh6(u) - v6) = Abs(Tanh6(w) - v6) /\ Abs(u) <= Abs(w))

\* _original_to_tanh: arctanh(((clip(x) - lo) / (hi - lo) * 2 - 1) * s)
OriginalToTanh(x_original, clip_min, clip_max) ==
    LET x_tanh == Clip(x_original, clip_min, clip_max)
    IN ArcTanhGrid(((2 * (x_tanh - clip_min) - (clip_max - clip_min)) * TanhSmoother6)
                   \div (clip_max - clip_min))

\* _tanh_to_original: ((tanh(u) / s + 1) / 2) * (hi - lo) + lo, as a numerator
TanhToOriginal(x_tanh, clip_min, clip_max) ==
    (Tanh6(x_tanh) + TanhSmoother6) * (clip_max - clip_min) + XN(clip_min)

\* ------------------------------------------------------------ margin loss
\* faulty variant of z_other: the target entry is zeroed, not pushed below the minimum
ZOther_NoOffset(zv, target) ==
    SeqMax([k \in 1..Len(zv) |-> zv[k] * (1 - target[k])])

\* z_other: np.max(z * (1 - target) + (np.min(z) - 1) * target)
ZOther(zv, target) ==
    SeqMax([k \in 1..Len(zv) |-> zv[k] * (1 - target[k]) + (SeqMin(zv) - 1) * target[k]])

\* z_target: np.sum(z * target)
ZTarget(zv, target) == SeqSum([k \in 1..Len(zv) |-> zv[k] * target[k]])

\* the hinge of _loss
MarginLoss(zv, target, conf, tgt) ==
    IF tgt THEN Max2(ZOther(zv, target) - ZTarget(zv, target) + conf, 0)
    ELSE Max2(ZTarget(zv, target) - ZOther(zv, target) + conf, 0)

\* One c unit times one logit unit, in l2dist units.
MarginWeight == Pow2(12)

\* a difference of cm this large outweighs any difference of dist
DistCap == Pow2(5)

\* [cm, dist] stands for cm * MarginWeight + dist, with 0 <= dist < DistCap * MarginWeight
LossLT(p, q) == IF p.cm = q.cm THEN p.dist < q.dist
                ELSE IF p.cm - q.cm >= DistCap THEN FALSE
                ELSE IF q.cm - p.cm >= DistCap THEN TRUE
                ELSE (p.cm - q.cm) * MarginWeight < q.dist - p.dist

LossLE(p, q) == ~LossLT(q, p)

\* np.sum(np.square(x - x_adv)), the difference rounded to input units
L2Dist(x, x_adv_n) ==
    LET diff == RoundDiv(x_adv_n - XN(x), 2 * TanhSmoother6)
    IN diff * diff

\* CarliniL2Method._loss, given the logits the classifier returns for x_adv
LossL2(x, x_adv_n, target, cc, zv, conf, tgt) ==
    LET dist == L2Dist(x, x_adv_n)
    IN [z |-> zv, l2dist |-> dist,
        loss |-> [cm |-> cc * MarginLoss(zv, target, conf, tgt), dist |-> dist]]

\* CarliniLInfMethod._loss, given the logits the classifier returns for x_adv
LossLInf(zv, target, conf, tgt) ==
    [z |-> zv, loss |-> [cm |-> MarginLoss(zv, target, conf, tgt), dist |-> 0]]

\* loss - l2dist <= 0 (L2) and loss <= 0 (LInf)
LossSuccess(p) == p.cm <= 0

\* ------------------------------------------------------------------ state
VARIABLES
    norm,                    \* "L2" (CarliniL2Method) or "LInf" (CarliniLInfMethod)
    targeted, confidence, max_iter, binary_search_steps, max_halving, max_doubling,
    initial_const, eps, learning_rate,   \* attack parameters
    x_batch,                 \* the original inputs of the batch
    predict,                 \* classifier logits, by queried input (numerator)
    gradient,                \* descent direction, by <<x, x_adv_tanh, c>>
    pc, bss, it, h, d,       \* position in generate and its loop counters
    c, c_lower_bound, c_double, best_l2dist, best_x_adv_batch,
    lr, x_adv_batch, x_adv_batch_tanh, z, l2dist, loss,
    attack_success, overall_attack_success,
    active, perturbation_tanh, prev_loss, best_loss, best_lr, halving,
    trials,                  \* the trials of the current line search, by sample:
                             \* the phase, the rate tried and the loss found
    x_adv,                   \* the rows generate returns for the batch
    loss_in, loss_out,       \* arguments and result of one call of the margin loss
    solo,                    \* what each sample's flags and best slot would be
                             \* had generate been called on that sample alone
    batch_size, y,           \* the batch size and the labels given to generate
    nb_batches, batch_id,    \* the batch loop of generate
    classifier_calls,        \* how often generate has called the classifier
    gradient_in, loss_gradient,  \* arguments and result of one call of
                                 \* _gradient_of_loss
    classifier,              \* the logit vectors the classifier can return
    adv_preds, success_rate          \* the classes predicted for the returned rows and
                             \* the number of rows counted as successes

driver == <<batch_size, y, nb_batches, batch_id, classifier_calls>>

params == <<norm, targeted, confidence, max_iter, binary_search_steps, max_halving,
            max_doubling, initial_const, eps, learning_rate, x_batch, loss_in, loss_out, driver,
            gradient_in, loss_gradient, classifier>>

report == <<adv_preds, success_rate>>

search == <<c, c_lower_bound, c_double>>

best == <<best_l2dist, best_x_adv_batch>>

cand == <<x_adv_batch, x_adv_batch_tanh, z>>

line == <<active, perturbation_tanh, prev_loss, best_loss, best_lr, halving, trials>>

vars == <<params, predict, gradient, pc, bss, it, h, d, search, best, lr, cand,
          l2dist, loss, attack_success, overall_attack_success, line, x_adv, solo,
          report>>

\* ----------------------------------------------------------------- inputs
\* classifier.clip_values
ClipValues == <<0, 256>>

\* y: every sample's one-hot label is the second of two classes
Target == <<0, 1>>

\* the classifiers of the searches followed in full
PlainLogits == IF norm = "L2" /\ confidence = 0 THEN {<<1, 0>>, <<0, 1>>}
               ELSE IF norm = "L2" THEN {<<1, 0>>, <<0, 1>>, <<0, 0>>}
               ELSE {<<1, 0>>, <<0, 1>>, <<2, 0>>}

\* logits the classifier may return
Logits == classifier

\* perturbation_tanh for one sample, in half grid steps per unit of lr
Perturbations == {-1, 1}

\* learning_rate of the searches followed in full, in lr units: the smallest
\* rate ever tried moves one grid step
LearningRate == Pow2((MaxHalving - 1) * MaxIter + 1)

\* np.inf
Inf == Pow2(30)

EmptyFn == [k \in {} |-> 0]

Extend(f, g) == [k \in (DOMAIN f) \cup (DOMAIN g) |-> IF k \in DOMAIN f THEN f[k] ELSE g[k]]

\* L2: the classifier's clip values; LInf: the eps-box of the sample inside them
ClipMin(i) == IF norm = "L2" THEN ClipValues[1]
              ELSE Clip(x_batch[i] - eps, ClipValues[1], ClipValues[2])

ClipMax(i) == IF norm = "L2" THEN ClipValues[2]
              ELSE Clip(x_batch[i] + eps, ClipValues[1], ClipValues[2])

\* self._loss for sample i at candidate xn, with the classifier answering pr
Eval(i, xn, pr) ==
    IF norm = "L2"
    THEN LossL2(x_batch[i], xn, Target, c[i], pr[xn], confidence, targeted)
    ELSE [z |-> pr[xn], l2dist |-> 0,
          loss |-> LossLInf(pr[xn], Target, confidence, targeted).loss]

\* half of n, towards zero: a move of half a grid step is lost in the sum
HalfSteps(n) == IF n >= 0 THEN n \div 2 ELSE -((-n) \div 2)

\* x_adv_batch_tanh + lr * perturbation_tanh, then _tanh_to_original
StepTanh(i, rate) == x_adv_batch_tanh[i] + HalfSteps(rate * perturbation_tanh[i])

StepOriginal(i, rate) == TanhToOriginal(StepTanh(i, rate), ClipMin(i), ClipMax(i))

\* ------------------------------------------------------- a sample alone
\* `solo` follows, next to the batch, what generate computes for each sample
\* when the batch holds that sample only: within a round the trials of a
\* sample (its rates, candidates, loss and l2dist) are the same, but the
\* success flags are recomputed only in the passes in which the sample itself
\* commits.  solo.same_c[i] tells whether the last update of c gave the
\* sample the same c in both runs, and solo.ok[i] holds while every round (L2)
\* and every pass (LInf) has started with the sample's c and activity the
\* same in both runs.

\* the loss has been evaluated at the start candidates
SoloStart(fresh) ==
    [solo EXCEPT !.success = fresh, !.overall = fresh,
                 !.ok = [i \in Samples |-> solo.ok[i] /\ solo.same_c[i]]]

\* attack_success and overall_attack_success after a commit of the sample
SoloCommit(success) ==
    [solo EXCEPT
        !.success = [i \in Samples |->
            IF active[i] /\ best_lr[i] > 0 THEN success[i] ELSE solo.success[i]],
        !.overall = [i \in Samples |->
            solo.overall[i] \/ (active[i] /\ best_lr[i] > 0 /\ success[i])]]

\* improved_adv and the update of the best slot
SoloRecordBest(sl) ==
    [sl EXCEPT
        !.best_l2dist = [i \in Samples |->
            IF sl.success[i] /\ l2dist[i] < sl.best_l2dist[i] THEN l2dist[i]
            ELSE sl.best_l2dist[i]],
        !.best_x_adv = [i \in Samples |->
            IF sl.success[i] /\ l2dist[i] < sl.best_l2dist[i] THEN x_adv_batch[i]
            ELSE sl.best_x_adv[i]]]

\* LInf: active = ~attack_success
SoloActive ==
    [solo EXCEPT !.ok = [i \in Samples |-> solo.ok[i] /\ solo.success[i] = attack_success[i]]]

\* ------------------------------------------------------------ line search
\* One trial of the line search: the samples of S are evaluated at the step
\* their rate gives, and every sample whose loss is now below its best loss
\* records its rate and loss.
Trial(S, rate) ==
    LET keys == {StepOriginal(i, rate[i]) : i \in S}
    IN \E ext \in [keys \ DOMAIN predict -> Logits] :
        LET pr == Extend(predict, ext)
            new_loss == [i \in Samples |->
                IF i \in S THEN Eval(i, StepOriginal(i, rate[i]), pr).loss ELSE loss[i]]
            new_l2dist == [i \in Samples |->
                IF i \in S THEN Eval(i, StepOriginal(i, rate[i]), pr).l2dist ELSE l2dist[i]]
        IN /\ predict' = pr
           /\ loss' = new_loss
           /\ l2dist' = new_l2dist
           /\ best_lr' = [i \in Samples |->
                IF LossLT(new_loss[i], best_loss[i]) THEN rate[i] ELSE best_lr[i]]
           /\ best_loss' = [i \in Samples |->
                IF LossLT(new_loss[i], best_loss[i]) THEN new_loss[i] ELSE best_loss[i]]
           /\ trials' = [i \in Samples |->
                IF i \in S
                THEN Append(trials[i], [phase |-> pc, rate |-> rate[i], loss |-> new_loss[i]])
                ELSE trials[i]]

\* do_halving: loss[active] >= prev_loss[active]
DoHalving == {i \in Samples : active[i] /\ LossLE(prev_loss[i], loss[i])}

\* faulty variant of do_doubling: the loss is not compared with the best loss
DoDoubling_Always == {i \in Samples : active[i] /\ halving[i] = 1}

\* do_doubling: (halving[active] == 1) & (loss[active] <= best_loss[active])
DoDoubling == {i \in Samples : active[i] /\ halving[i] = 1 /\ LossLE(loss[i], best_loss[i])}

\* the start of the line search: the gradient is taken and the trackers reset
ComputeGradient(act) ==
    LET key(i) == <<x_batch[i], x_adv_batch_tanh[i], c[i]>>
        keys == {key(i) : i \in {j \in Samples : act[j]}}
    IN \E ext \in [keys \ DOMAIN gradient -> Perturbations] :
        LET gr == Extend(gradient, ext)
        IN /\ gradient' = gr
           /\ perturbation_tanh' = [i \in Samples |-> IF act[i] THEN gr[key(i)] ELSE 0]
           /\ prev_loss' = loss
           /\ best_loss' = loss
           /\ best_lr' = [i \in Samples |-> 0]
           /\ halving' = [i \in Samples |-> 0]
           /\ trials' = [i \in Samples |-> <<>>]

\* faulty variant of the halving loop: the number of rounds is not limited
HalvingStep_Unbounded ==
    /\ pc = "halving"
    /\ DoHalving # {}
    /\ Trial(DoHalving, lr)
    /\ lr' = [i \in Samples |-> IF i \in DoHalving THEN lr[i] \div 2 ELSE lr[i]]
    /\ halving' = [i \in Samples |-> IF i \in DoHalving THEN halving[i] + 1 ELSE halving[i]]
    /\ h' = h + 1
    /\ UNCHANGED <<params, report, gradient, pc, bss, it, d, search, best, cand, attack_success,
                   overall_attack_success, active, perturbation_tanh, prev_loss, x_adv, solo>>

\* one round of the halving loop
HalvingStep ==
    /\ pc = "halving"
    /\ h < max_halving
    /\ DoHalving # {}
    /\ Trial(DoHalving, lr)
    /\ lr' = [i \in Samples |-> IF i \in DoHalving THEN lr[i] \div 2 ELSE lr[i]]
    /\ halving' = [i \in Samples |-> IF i \in DoHalving THEN halving[i] + 1 ELSE halving[i]]
    /\ h' = h + 1
    /\ UNCHANGED <<params, report, gradient, pc, bss, it, d, search, best, cand, attack_success,
                   overall_attack_success, active, perturbation_tanh, prev_loss, x_adv, solo>>

\* faulty variant of the end of the halving loop: the last halving is not undone
EndHalving_NoRestore ==
    /\ pc = "halving"
    /\ (h = max_halving \/ DoHalving = {})
    /\ lr' = lr
    /\ d' = 0
    /\ pc' = "doubling"
    /\ UNCHANGED <<params, report, predict, gradient, bss, it, h, search, best, cand, l2dist, loss,
                   attack_success, overall_attack_success, line, x_adv, solo>>

\* the halving loop ends (exhausted, or nothing left to halve): lr[active] *= 2
EndHalving ==
    /\ pc = "halving"
    /\ (h = max_halving \/ DoHalving = {})
    /\ lr' = [i \in Samples |-> IF active[i] THEN lr[i] * 2 ELSE lr[i]]
    /\ d' = 0
    /\ pc' = "doubling"
    /\ UNCHANGED <<params, report, predict, gradient, bss, it, h, search, best, cand, l2dist, loss,
                   attack_success, overall_attack_success, line, x_adv, solo>>

\* one round of the doubling loop
DoublingStep ==
    /\ pc = "doubling"
    /\ d < max_doubling
    /\ DoDoubling # {}
    /\ LET doubled == [i \in Samples |-> IF i \in DoDoubling THEN lr[i] * 2 ELSE lr[i]]
       IN /\ Trial(DoDoubling, doubled)
          /\ lr' = doubled
    /\ d' = d + 1
    /\ UNCHANGED <<params, report, gradient, pc, bss, it, h, search, best, cand, attack_success,
                   overall_attack_success, active, perturbation_tanh, prev_loss, halving,
                   x_adv, solo>>

\* faulty variant of update_adv: every active sample commits
UpdateAdv_AllActive == {i \in Samples : active[i]}

\* update_adv: best_lr[active] > 0
UpdateAdv == {i \in Samples : active[i] /\ best_lr[i] > 0}

\* The doubling loop ends: lr[halving == 1] /= 2, and the samples that found a
\* step commit it; the success flags are recomputed when any sample commits.
\* `next` is where generate goes when this was the last iteration.
Commit(next) ==
    /\ pc = "doubling"
    /\ (d = max_doubling \/ DoDoubling = {})
    /\ lr' = [i \in Samples |-> IF halving[i] = 1 THEN lr[i] \div 2 ELSE lr[i]]
    /\ IF UpdateAdv = {}
       THEN UNCHANGED <<predict, cand, l2dist, loss, attack_success, overall_attack_success,
                        solo>>
       ELSE LET keys == {StepOriginal(i, best_lr[i]) : i \in UpdateAdv}
            IN \E ext \in [keys \ DOMAIN predict -> Logits] :
                LET pr == Extend(predict, ext)
                    res == [i \in UpdateAdv |-> Eval(i, StepOriginal(i, best_lr[i]), pr)]
                    new_loss == [i \in Samples |->
                        IF i \in UpdateAdv THEN res[i].loss ELSE loss[i]]
                    success == [i \in Samples |-> LossSuccess(new_loss[i])]
                IN /\ predict' = pr
                   /\ x_adv_batch_tanh' = [i \in Samples |->
                        IF i \in UpdateAdv THEN StepTanh(i, best_lr[i])
                        ELSE x_adv_batch_tanh[i]]
                   /\ x_adv_batch' = [i \in Samples |->
                        IF i \in UpdateAdv THEN StepOriginal(i, best_lr[i])
                        ELSE x_adv_batch[i]]
                   /\ z' = [i \in Samples |-> IF i \in UpdateAdv THEN res[i].z ELSE z[i]]
                   /\ l2dist' = [i \in Samples |->
                        IF i \in UpdateAdv THEN res[i].l2dist ELSE l2dist[i]]
                   /\ loss' = new_loss
                   /\ attack_success' = success
                   /\ overall_attack_success' = [i \in Samples |->
                        overall_attack_success[i] \/ success[i]]
                   /\ solo' = SoloCommit(success)
    /\ it' = it + 1
    /\ pc' = IF it + 1 < max_iter THEN "it" ELSE next
    /\ UNCHANGED <<params, report, gradient, bss, h, d, search, best, line, x_adv>>

\* the classifier has not been queried, and the variables generate assigns
\* inside its loops hold placeholders
NotYetAssigned ==
    /\ predict = EmptyFn
    /\ gradient = EmptyFn
    /\ bss = 0 /\ it = 0 /\ h = 0 /\ d = 0
    /\ z = [i \in Samples |-> <<0, 0>>]
    /\ l2dist = [i \in Samples |-> 0]
    /\ loss = [i \in Samples |-> [cm |-> 0, dist |-> 0]]
    /\ attack_success = [i \in Samples |-> FALSE]
    /\ overall_attack_success = [i \in Samples |-> FALSE]
    /\ active = [i \in Samples |-> FALSE]
    /\ perturbation_tanh = [i \in Samples |-> 0]
    /\ prev_loss = [i \in Samples |-> [cm |-> 0, dist |-> 0]]
    /\ best_loss = [i \in Samples |-> [cm |-> 0, dist |-> 0]]
    /\ best_lr = [i \in Samples |-> 0]
    /\ halving = [i \in Samples |-> 0]
    /\ trials = [i \in Samples |-> <<>>]
    /\ adv_preds = <<>>
    /\ success_rate = 0

\* generate runs: the margin loss is not called on its own
NoLossCall ==
    /\ loss_in = [z |-> <<0, 0>>, target |-> <<0, 1>>, confidence |-> 0, targeted |-> TRUE]
    /\ loss_out = -1

\* _gradient_of_loss is not called on its own
NoGradientCall ==
    /\ gradient_in = <<>>
    /\ loss_gradient = <<>>

\* the search of one batch is followed on its own: the batch holds all the rows,
\* labels are given
OneBatch ==
    /\ batch_size = NSamples
    /\ y = "labels"
    /\ nb_batches = 1
    /\ batch_id = 0
    /\ classifier_calls = 0

\* The end of generate: the returned rows are classified and the successes
\* counted.  A targeted success is a row classified as its target; an
\* untargeted one a row classified otherwise than the original input.
SuccessRate(rows) ==
    LET keys == {rows[i] : i \in Samples}
                    \cup (IF targeted THEN {} ELSE {XN(x_batch[i]) : i \in Samples})
    IN \E ext \in [keys \ DOMAIN predict -> Logits] :
        LET pr == Extend(predict, ext)
            preds == [i \in Samples |-> ArgMax(pr[rows[i]])]
        IN /\ predict' = pr
           /\ adv_preds' = preds
           /\ success_rate' = Cardinality({i \in Samples :
                    IF targeted THEN preds[i] = ArgMax(Target)
                    ELSE preds[i] # ArgMax(pr[XN(x_batch[i])])})

\* faulty variant of the start candidate: the input clipped to the valid range
StartCandidate_Clipped(x) == XN(Clip(x, ClipValues[1], ClipValues[2]))

\* x_batch.copy(): the candidate a search starts from, and the initial content
\* of the best slot
StartCandidate(x) == XN(x)

\* -------------------------------------------------- CarliniL2Method.generate
\* inputs of the L2 batch: the centre of the valid range, and a value above it
InputsL2 == {128, 300}

\* initial_const, in c units: a small one, and one that a doubling takes past
\* _c_upper_bound
InitialConsts == {Pow2(MaxBSS), 64000000}

\* improved_adv: attack_success & (l2dist < best_l2dist)
ImprovedAdv == {i \in Samples : attack_success[i] /\ l2dist[i] < best_l2dist[i]}

\* best_l2dist[improved_adv] = l2dist[...]; best_x_adv_batch[improved_adv] = x_adv_batch[...]
RecordBest ==
    /\ best_l2dist' = [i \in Samples |->
            IF i \in ImprovedAdv THEN l2dist[i] ELSE best_l2dist[i]]
    /\ best_x_adv_batch' = [i \in Samples |->
            IF i \in ImprovedAdv THEN x_adv_batch[i] ELSE best_x_adv_batch[i]]

\* faulty variant of the update: a successful round halves c without regard to
\* c_lower_bound
BinarySearchUpdate_Halve(cc, lower, double, success) ==
    IF success
    THEN [c |-> cc \div 2, c_lower_bound |-> lower, c_double |-> FALSE]
    ELSE LET c_new == IF double THEN cc * 2 ELSE cc + (cc - lower) \div 2
         IN [c |-> c_new, c_lower_bound |-> c_new, c_double |-> double]

\* The update of one sample's (c, c_lower_bound, c_double) after a round.
\* c_old = c binds the array itself, so c_lower_bound receives the updated c.
BinarySearchUpdate(cc, lower, double, success) ==
    IF success
    THEN [c |-> (lower + cc) \div 2, c_lower_bound |-> lower, c_double |-> FALSE]
    ELSE LET c_new == IF double THEN cc * 2 ELSE cc + (cc - lower) \div 2
         IN [c |-> c_new, c_lower_bound |-> c_new, c_double |-> double]

\* before the first round
SoloInit ==
    [success |-> [i \in Samples |-> FALSE],
     overall |-> [i \in Samples |-> FALSE],
     best_l2dist |-> [i \in Samples |-> Inf],
     best_x_adv |-> [i \in Samples |-> StartCandidate(x_batch[i])],
     same_c |-> [i \in Samples |-> TRUE],
     ok |-> [i \in Samples |-> TRUE]]

\* the end of a round: the best slot, and whether c moves as in the batch
SoloUpdateC ==
    LET sl == SoloRecordBest(solo)
    IN [sl EXCEPT !.same_c = [i \in Samples |->
            /\ sl.same_c[i]
            /\ BinarySearchUpdate(c[i], c_lower_bound[i], c_double[i], sl.overall[i])
                   = BinarySearchUpdate(c[i], c_lower_bound[i], c_double[i],
                                        overall_attack_success[i])]]

\* the row generate returns for the sample alone
SoloOutput(i) ==
    IF norm = "L2" THEN solo.best_x_adv[i]
    ELSE IF solo.success[i] THEN x_adv_batch[i] ELSE XN(x_batch[i])

InitL2 ==
    /\ norm = "L2"
    /\ targeted = TRUE
    /\ confidence = 0
    /\ max_iter \in 0..MaxIter
    /\ binary_search_steps \in 0..MaxBSS
    /\ max_iter * binary_search_steps <= MaxWork
    /\ max_halving \in 1..MaxHalving
    /\ max_doubling \in 1..MaxDoubling
    /\ initial_const \in InitialConsts
    /\ learning_rate = LearningRate
    /\ eps = 0
    /\ x_batch \in [Samples -> InputsL2]
    /\ pc = "bss"
    /\ c = [i \in Samples |-> initial_const]
    /\ c_lower_bound = [i \in Samples |-> 0]
    /\ c_double = [i \in Samples |-> TRUE]
    /\ best_l2dist = [i \in Samples |-> Inf]
    /\ best_x_adv_batch = [i \in Samples |-> StartCandidate(x_batch[i])]
    /\ lr = [i \in Samples |-> learning_rate]
    /\ x_adv_batch = [i \in Samples |-> StartCandidate(x_batch[i])]
    /\ x_adv_batch_tanh = [i \in Samples |->
            OriginalToTanh(x_batch[i], ClipValues[1], ClipValues[2])]
    /\ x_adv = [i \in Samples |-> XN(x_batch[i])]
    /\ NotYetAssigned
    /\ classifier = PlainLogits
    /\ NoLossCall
    /\ OneBatch
    /\ NoGradientCall
    /\ solo = SoloInit

\* a binary search round starts: rates and candidates are reset, the loss is
\* evaluated at the original inputs
\* faulty variant of the round start: the rates of the last round are kept
L2_BeginRound_KeepRate ==
    /\ norm = "L2"
    /\ pc = "bss"
    /\ bss < binary_search_steps
    /\ \E i \in Samples : c[i] < CUpperBound
    /\ x_adv_batch' = [i \in Samples |-> StartCandidate(x_batch[i])]
    /\ x_adv_batch_tanh' = [i \in Samples |->
            OriginalToTanh(x_batch[i], ClipValues[1], ClipValues[2])]
    /\ LET keys == {StartCandidate(x_batch[i]) : i \in Samples}
       IN \E ext \in [keys \ DOMAIN predict -> Logits] :
            LET pr == Extend(predict, ext)
                res == [i \in Samples |-> Eval(i, StartCandidate(x_batch[i]), pr)]
            IN /\ predict' = pr
               /\ z' = [i \in Samples |-> res[i].z]
               /\ l2dist' = [i \in Samples |-> res[i].l2dist]
               /\ loss' = [i \in Samples |-> res[i].loss]
               /\ attack_success' = [i \in Samples |-> LossSuccess(res[i].loss)]
               /\ overall_attack_success' = [i \in Samples |-> LossSuccess(res[i].loss)]
               /\ solo' = SoloStart([i \in Samples |-> LossSuccess(res[i].loss)])
    /\ it' = 0
    /\ pc' = IF max_iter > 0 THEN "it" ELSE "update_c"
    /\ UNCHANGED <<params, report, gradient, bss, h, d, search, best, lr, line, x_adv>>

\* the start of a binary-search round
L2_BeginRound ==
    /\ norm = "L2"
    /\ pc = "bss"
    /\ bss < binary_search_steps
    /\ \E i \in Samples : c[i] < CUpperBound
    /\ lr' = [i \in Samples |-> learning_rate]
    /\ x_adv_batch' = [i \in Samples |-> StartCandidate(x_batch[i])]
    /\ x_adv_batch_tanh' = [i \in Samples |->
            OriginalToTanh(x_batch[i], ClipValues[1], ClipValues[2])]
    /\ LET keys == {StartCandidate(x_batch[i]) : i \in Samples}
       IN \E ext \in [keys \ DOMAIN predict -> Logits] :
            LET pr == Extend(predict, ext)
                res == [i \in Samples |-> Eval(i, StartCandidate(x_batch[i]), pr)]
            IN /\ predict' = pr
               /\ z' = [i \in Samples |-> res[i].z]
               /\ l2dist' = [i \in Samples |-> res[i].l2dist]
               /\ loss' = [i \in Samples |-> res[i].loss]
               /\ attack_success' = [i \in Samples |-> LossSuccess(res[i].loss)]
               /\ overall_attack_success' = [i \in Samples |-> LossSuccess(res[i].loss)]
               /\ solo' = SoloStart([i \in Samples |-> LossSuccess(res[i].loss)])
    /\ it' = 0
    /\ pc' = IF max_iter > 0 THEN "it" ELSE "update_c"
    /\ UNCHANGED <<params, report, gradient, bss, h, d, search, best, line, x_adv>>

\* faulty variant of the start of an iteration: c is not compared with the
\* upper bound
L2_BeginIter_AllActive ==
    /\ norm = "L2"
    /\ pc = "it"
    /\ RecordBest
    /\ solo' = SoloRecordBest(solo)
    /\ LET act == [i \in Samples |-> lr[i] > 0]
       IN /\ active' = act
          /\ IF \A i \in Samples : ~act[i]
             THEN /\ pc' = "update_c"
                  /\ UNCHANGED <<gradient, perturbation_tanh, prev_loss, best_loss, best_lr,
                                 halving, trials, h>>
             ELSE /\ ComputeGradient(act)
                  /\ h' = 0
                  /\ pc' = "halving"
    /\ UNCHANGED <<params, report, predict, bss, it, d, search, lr, cand, l2dist, loss,
                   attack_success, overall_attack_success, x_adv>>

\* an inner iteration starts: the best slot is updated, the active samples are
\* found, and either the loop breaks or the gradient is taken
L2_BeginIter ==
    /\ norm = "L2"
    /\ pc = "it"
    /\ RecordBest
    /\ solo' = SoloRecordBest(solo)
    /\ LET act == [i \in Samples |-> c[i] < CUpperBound /\ lr[i] > 0]
       IN /\ active' = act
          /\ IF \A i \in Samples : ~act[i]
             THEN /\ pc' = "update_c"
                  /\ UNCHANGED <<gradient, perturbation_tanh, prev_loss, best_loss, best_lr,
                                 halving, trials, h>>
             ELSE /\ ComputeGradient(act)
                  /\ h' = 0
                  /\ pc' = "halving"
    /\ UNCHANGED <<params, report, predict, bss, it, d, search, lr, cand, l2dist, loss,
                   attack_success, overall_attack_success, x_adv>>

L2_HalvingStep == norm = "L2" /\ HalvingStep

L2_EndHalving == norm = "L2" /\ EndHalving

L2_DoublingStep == norm = "L2" /\ DoublingStep

L2_Commit == norm = "L2" /\ Commit("update_c")

\* the round ends: the best slot is updated once more and c is adjusted
L2_UpdateC ==
    /\ norm = "L2"
    /\ pc = "update_c"
    /\ RecordBest
    /\ solo' = SoloUpdateC
    /\ LET upd == [i \in Samples |->
            BinarySearchUpdate(c[i], c_lower_bound[i], c_double[i],
                               overall_attack_success[i])]
       IN /\ c' = [i \in Samples |-> upd[i].c]
          /\ c_lower_bound' = [i \in Samples |-> upd[i].c_lower_bound]
          /\ c_double' = [i \in Samples |-> upd[i].c_double]
    /\ bss' = bss + 1
    /\ pc' = "bss"
    /\ UNCHANGED <<params, report, predict, gradient, it, h, d, lr, cand, l2dist, loss,
                   attack_success, overall_attack_success, line, x_adv>>

\* faulty variant of the end of the search: the last candidate is returned
L2_Finish_LastCandidate ==
    /\ norm = "L2"
    /\ pc = "bss"
    /\ (bss = binary_search_steps \/ \A i \in Samples : c[i] >= CUpperBound)
    /\ x_adv' = x_adv_batch
    /\ SuccessRate(x_adv_batch)
    /\ pc' = "done"
    /\ UNCHANGED <<params, gradient, bss, it, h, d, search, best, lr, cand, l2dist,
                   loss, attack_success, overall_attack_success, line, solo>>

\* the binary search is over: x_adv[batch] = best_x_adv_batch
L2_Finish ==
    /\ norm = "L2"
    /\ pc = "bss"
    /\ (bss = binary_search_steps \/ \A i \in Samples : c[i] >= CUpperBound)
    /\ x_adv' = best_x_adv_batch
    /\ SuccessRate(best_x_adv_batch)
    /\ pc' = "done"
    /\ UNCHANGED <<params, gradient, bss, it, h, d, search, best, lr, cand, l2dist,
                   loss, attack_success, overall_attack_success, line, solo>>

NextL2 ==
    \/ L2_BeginRound
    \/ L2_BeginIter
    \/ L2_HalvingStep
    \/ L2_EndHalving
    \/ L2_DoublingStep
    \/ L2_Commit
    \/ L2_UpdateC
    \/ L2_Finish

Spec == InitL2 /\ [][NextL2]_vars

\* A single round of MaxIter iterations with confidence 1, for which the
\* classifier has three margin levels (2, 1 and 0).
InitL2Wide ==
    /\ norm = "L2"
    /\ targeted = TRUE
    /\ confidence = 1
    /\ max_iter = MaxIter
    /\ binary_search_steps = 1
    /\ max_halving = 1
    /\ max_doubling = 1
    /\ initial_const = Pow2(MaxBSS)
    /\ learning_rate = LearningRate
    /\ eps = 0
    /\ x_batch \in [Samples -> InputsL2]
    /\ pc = "bss"
    /\ c = [i \in Samples |-> initial_const]
    /\ c_lower_bound = [i \in Samples |-> 0]
    /\ c_double = [i \in Samples |-> TRUE]
    /\ best_l2dist = [i \in Samples |-> Inf]
    /\ best_x_adv_batch = [i \in Samples |-> StartCandidate(x_batch[i])]
    /\ lr = [i \in Samples |-> learning_rate]
    /\ x_adv_batch = [i \in Samples |-> StartCandidate(x_batch[i])]
    /\ x_adv_batch_tanh = [i \in Samples |->
            OriginalToTanh(x_batch[i], ClipValues[1], ClipValues[2])]
    /\ x_adv = [i \in Samples |-> XN(x_batch[i])]
    /\ NotYetAssigned
    /\ classifier = PlainLogits
    /\ NoLossCall
    /\ OneBatch
    /\ NoGradientCall
    /\ solo = SoloInit

SpecWide == InitL2Wide /\ [][NextL2]_vars

\* ------------------------------------------------ CarliniLInfMethod.generate
\* inputs of the LInf batch: the lower end and the centre of the valid range
InputsLInf == {0, 128}

\* eps, in input units
Epsilons == {13, 128}

InitLInf ==
    /\ norm = "LInf"
    /\ targeted \in BOOLEAN
    /\ confidence = 0
    /\ max_iter \in 0..MaxIter
    /\ binary_search_steps = 0
    /\ max_halving \in 1..MaxHalving
    /\ max_doubling \in 1..MaxDoubling
    /\ initial_const = 0
    /\ learning_rate = LearningRate
    /\ eps \in Epsilons
    /\ x_batch \in [Samples -> InputsLInf]
    /\ pc = "start"
    /\ c = [i \in Samples |-> 0]
    /\ c_lower_bound = [i \in Samples |-> 0]
    /\ c_double = [i \in Samples |-> TRUE]
    /\ best_l2dist = [i \in Samples |-> Inf]
    /\ best_x_adv_batch = [i \in Samples |-> StartCandidate(x_batch[i])]
    /\ lr = [i \in Samples |-> learning_rate]
    /\ x_adv_batch = [i \in Samples |-> StartCandidate(x_batch[i])]
    /\ x_adv_batch_tanh = [i \in Samples |-> 0]
    /\ x_adv = [i \in Samples |-> XN(x_batch[i])]
    /\ NotYetAssigned
    /\ classifier = PlainLogits
    /\ NoLossCall
    /\ OneBatch
    /\ NoGradientCall
    /\ solo = SoloInit

\* the batch starts: the eps-box of every sample, its tanh coordinate, the
\* loss at the original inputs and the rates
LInf_Begin ==
    /\ norm = "LInf"
    /\ pc = "start"
    /\ x_adv_batch' = [i \in Samples |-> StartCandidate(x_batch[i])]
    /\ x_adv_batch_tanh' = [i \in Samples |->
            OriginalToTanh(x_batch[i], ClipMin(i), ClipMax(i))]
    /\ LET keys == {StartCandidate(x_batch[i]) : i \in Samples}
       IN \E ext \in [keys \ DOMAIN predict -> Logits] :
            LET pr == Extend(predict, ext)
                res == [i \in Samples |-> Eval(i, StartCandidate(x_batch[i]), pr)]
            IN /\ predict' = pr
               /\ z' = [i \in Samples |-> res[i].z]
               /\ loss' = [i \in Samples |-> res[i].loss]
               /\ attack_success' = [i \in Samples |-> LossSuccess(res[i].loss)]
               /\ solo' = SoloStart([i \in Samples |-> LossSuccess(res[i].loss)])
    /\ lr' = [i \in Samples |-> learning_rate]
    /\ it' = 0
    /\ pc' = IF max_iter > 0 THEN "it" ELSE "finish"
    /\ UNCHANGED <<params, report, gradient, bss, h, d, search, best, l2dist,
                   overall_attack_success, line, x_adv>>

\* an iteration starts: only the samples that have not succeeded stay active;
\* the loop breaks when none is left
LInf_BeginIter ==
    /\ norm = "LInf"
    /\ pc = "it"
    /\ solo' = SoloActive
    /\ LET act == [i \in Samples |-> ~attack_success[i]]
       IN /\ active' = act
          /\ IF \A i \in Samples : ~act[i]
             THEN /\ pc' = "finish"
                  /\ UNCHANGED <<gradient, perturbation_tanh, prev_loss, best_loss, best_lr,
                                 halving, trials, h>>
             ELSE /\ ComputeGradient(act)
                  /\ h' = 0
                  /\ pc' = "halving"
    /\ UNCHANGED <<params, report, predict, bss, it, d, search, best, lr, cand, l2dist, loss,
                   attack_success, overall_attack_success, x_adv>>

LInf_HalvingStep == norm = "LInf" /\ HalvingStep

LInf_EndHalving == norm = "LInf" /\ EndHalving

LInf_DoublingStep == norm = "LInf" /\ DoublingStep

LInf_Commit == norm = "LInf" /\ Commit("finish")

\* faulty variant of the end of the batch: unsuccessful samples are not restored
LInf_Finish_KeepAll ==
    /\ norm = "LInf"
    /\ pc = "finish"
    /\ x_adv' = x_adv_batch
    /\ SuccessRate(x_adv_batch)
    /\ pc' = "done"
    /\ UNCHANGED <<params, gradient, bss, it, h, d, search, best, lr, cand, l2dist,
                   loss, attack_success, overall_attack_success, line, solo>>

\* the batch ends: x_adv_batch[~attack_success] = x_batch[~attack_success],
\* then x_adv[batch] = x_adv_batch
LInf_Finish ==
    /\ norm = "LInf"
    /\ pc = "finish"
    /\ x_adv_batch' = [i \in Samples |->
            IF attack_success[i] THEN x_adv_batch[i] ELSE XN(x_batch[i])]
    /\ x_adv' = [i \in Samples |->
            IF attack_success[i] THEN x_adv_batch[i] ELSE XN(x_batch[i])]
    /\ SuccessRate([i \in Samples |->
            IF attack_success[i] THEN x_adv_batch[i] ELSE XN(x_batch[i])])
    /\ pc' = "done"
    /\ UNCHANGED <<params, gradient, bss, it, h, d, search, best, lr,
                   x_adv_batch_tanh, z, l2dist, loss, attack_success,
                   overall_attack_success, line, solo>>

NextLInf ==
    \/ LInf_Begin
    \/ LInf_BeginIter
    \/ LInf_HalvingStep
    \/ LInf_EndHalving
    \/ LInf_DoublingStep
    \/ LInf_Commit
    \/ LInf_Finish

SpecLInf == InitLInf /\ [][NextLInf]_vars

\* ------------------------------------------------------------ both attacks
InitBoth == InitL2 \/ InitLInf

NextBoth ==
    \/ L2_BeginRound
    \/ L2_BeginIter
    \/ L2_HalvingStep
    \/ L2_EndHalving
    \/ L2_DoublingStep
    \/ L2_Commit
    \/ L2_UpdateC
    \/ L2_Finish
    \/ LInf_Begin
    \/ LInf_BeginIter
    \/ LInf_HalvingStep
    \/ LInf_EndHalving
    \/ LInf_DoublingStep
    \/ LInf_Commit
    \/ LInf_Finish

SpecBoth == InitBoth /\ [][NextBoth]_vars

\* ------------------------------------------------- the margin loss by itself
\* logit vectors of two and three classes, with negative entries
LogitValues == {-2, -1, 0, 1}

ClassCounts == {2, 3}

Confidences == {0, 1}

OneHot(n, t) == [k \in 1..n |-> IF k = t THEN 1 ELSE 0]

LossInputs ==
    UNION {[z : [1..n -> LogitValues], target : {OneHot(n, t) : t \in 1..n},
            confidence : Confidences, targeted : BOOLEAN] : n \in ClassCounts}

InitLoss ==
    /\ norm = "loss"
    /\ targeted = TRUE
    /\ confidence = 0
    /\ max_iter = 0
    /\ binary_search_steps = 0
    /\ max_halving = 1
    /\ max_doubling = 1
    /\ initial_const = 0
    /\ learning_rate = LearningRate
    /\ eps = 0
    /\ x_batch = [i \in Samples |-> 0]
    /\ pc = "loss"
    /\ c = [i \in Samples |-> 0]
    /\ c_lower_bound = [i \in Samples |-> 0]
    /\ c_double = [i \in Samples |-> TRUE]
    /\ best_l2dist = [i \in Samples |-> Inf]
    /\ best_x_adv_batch = [i \in Samples |-> 0]
    /\ lr = [i \in Samples |-> 0]
    /\ x_adv_batch = [i \in Samples |-> 0]
    /\ x_adv_batch_tanh = [i \in Samples |-> 0]
    /\ x_adv = [i \in Samples |-> 0]
    /\ NotYetAssigned
    /\ classifier = PlainLogits
    /\ loss_in \in LossInputs
    /\ loss_out = -1
    /\ OneBatch
    /\ NoGradientCall
    /\ solo = SoloInit

\* the hinge of _loss is evaluated on the drawn logits
Loss_Margin ==
    /\ pc = "loss"
    /\ loss_out' = MarginLoss(loss_in.z, loss_in.target, loss_in.confidence, loss_in.targeted)
    /\ pc' = "done"
    /\ UNCHANGED <<norm, targeted, confidence, max_iter, binary_search_steps, max_halving,
                   max_doubling, initial_const, eps, learning_rate, x_batch, loss_in, predict, gradient,
                   bss, it, h, d, search, best, lr, cand, l2dist, loss, attack_success,
                   overall_attack_success, line, x_adv, solo, driver, gradient_in,
                   loss_gradient, classifier, report>>

NextLoss == Loss_Margin

SpecLoss == InitLoss /\ [][NextLoss]_vars

\* ------------------------------------------------- gradient of the loss
\* CarliniL2Method._gradient_of_loss for one sample with one feature.  The
\* classifier's class gradients at x_adv are an input; x and x_adv are in input
\* units.  The result is kept in its factors: it stands for
\*     sum * range * (1 - (tanh6 / 10^6)^2) / (2 * _tanh_smoother).
ClassGradients == {-1, 0, 1}

GradientConsts == {1, 2, 3}

\* i_add and i_sub: the target class and the largest other class
IndexOther(zv, target) ==
    ArgMax([k \in 1..Len(zv) |-> zv[k] * (1 - target[k]) + (SeqMin(zv) - 1) * target[k]])

IndexAdd(zv, target, tgt) == IF tgt THEN IndexOther(zv, target) ELSE ArgMax(target)

IndexSub(zv, target, tgt) == IF tgt THEN ArgMax(target) ELSE IndexOther(zv, target)

\* faulty variant: the distance term is weighted by c as well
GradientOfLoss_DistanceTimesC(g) ==
    LET logit_gradient == g.class_gradient[IndexAdd(g.z, g.target, g.targeted)]
                            - g.class_gradient[IndexSub(g.z, g.target, g.targeted)]
    IN [sum |-> logit_gradient * g.c + 2 * g.c * (g.x_adv - g.x),
        range |-> g.clip_max - g.clip_min,
        tanh6 |-> Tanh6(g.x_adv_tanh)]

\* loss_gradient *= c; loss_gradient += 2 * (x_adv - x); then the two factors
\* of the chain rule
GradientOfLoss(g) ==
    LET logit_gradient == g.class_gradient[IndexAdd(g.z, g.target, g.targeted)]
                            - g.class_gradient[IndexSub(g.z, g.target, g.targeted)]
    IN [sum |-> logit_gradient * g.c + 2 * (g.x_adv - g.x),
        range |-> g.clip_max - g.clip_min,
        tanh6 |-> Tanh6(g.x_adv_tanh)]

GradientInputs ==
    [z : {<<1, 0>>, <<0, 1>>, <<0, 0>>}, target : {<<0, 1>>}, targeted : BOOLEAN,
     class_gradient : [1..2 -> ClassGradients], c : GradientConsts,
     x : {128}, x_adv : {100, 128, 200}, x_adv_tanh : {-1, 0, 7},
     clip_min : {ClipValues[1]}, clip_max : {ClipValues[2]}]

InitGradient ==
    /\ norm = "gradient"
    /\ targeted = TRUE
    /\ confidence = 0
    /\ max_iter = 0
    /\ binary_search_steps = 0
    /\ max_halving = 1
    /\ max_doubling = 1
    /\ initial_const = 0
    /\ learning_rate = LearningRate
    /\ eps = 0
    /\ x_batch = [i \in Samples |-> 0]
    /\ pc = "gradient"
    /\ c = [i \in Samples |-> 0]
    /\ c_lower_bound = [i \in Samples |-> 0]
    /\ c_double = [i \in Samples |-> TRUE]
    /\ best_l2dist = [i \in Samples |-> Inf]
    /\ best_x_adv_batch = [i \in Samples |-> 0]
    /\ lr = [i \in Samples |-> 0]
    /\ x_adv_batch = [i \in Samples |-> 0]
    /\ x_adv_batch_tanh = [i \in Samples |-> 0]
    /\ x_adv = [i \in Samples |-> 0]
    /\ NotYetAssigned
    /\ classifier = PlainLogits
    /\ NoLossCall
    /\ OneBatch
    /\ gradient_in \in GradientInputs
    /\ loss_gradient = <<>>
    /\ solo = SoloInit

\* _gradient_of_loss is evaluated on the drawn arguments
Gradient_Compute ==
    /\ pc = "gradient"
    /\ loss_gradient' = GradientOfLoss(gradient_in)
    /\ pc' = "done"
    /\ UNCHANGED <<norm, targeted, confidence, max_iter, binary_search_steps, max_halving,
                   max_doubling, initial_const, eps, learning_rate, x_batch, loss_in, loss_out, predict,
                   gradient, bss, it, h, d, search, best, lr, cand, l2dist, loss,
                   attack_success, overall_attack_success, line, x_adv, solo, driver,
                   gradient_in, classifier, report>>

NextGradient == Gradient_Compute

SpecGradient == InitGradient /\ [][NextGradient]_vars

\* ------------------------------------------------------ generate, by batch
\* The call of generate as a whole: the checks of set_params, the check of the
\* labels, and the loop over the batches.  Rows are followed by their index:
\* <<"x", i>> is row i of the input, <<"adv", i>> the result of the search for it.
MaxRows == 5

MaxBatchSize == 3

\* x.astype(NUMPY_DTYPE): a copy of the n input rows
InputRows(n) == [i \in 1..n |-> <<"x", i>>]

\* the checks of set_params, on the attributes as they are once the keyword
\* arguments are stored
\* faulty variant: the number of halving steps is not checked
SetParamsRaises_NoHalvingCheck ==
    \/ norm = "L2" /\ binary_search_steps < 0
    \/ norm = "LInf" /\ eps <= 0
    \/ max_iter < 0
    \/ max_doubling < 1
    \/ batch_size < 1

SetParamsRaises ==
    \/ norm = "L2" /\ binary_search_steps < 0
    \/ norm = "LInf" /\ eps <= 0
    \/ max_iter < 0
    \/ max_halving < 1
    \/ max_doubling < 1
    \/ batch_size < 1

\* faulty variant: the last, shorter group is dropped
NbBatches_Floor(n, b) == n \div b

\* int(np.ceil(n / float(batch_size)))
NbBatches(n, b) == (n + b - 1) \div b

\* x_adv[batch_index_1:batch_index_2]: a slice stops at the end of the array
Slice(rows, index_1, index_2) == SubSeq(rows, index_1 + 1, Min2(index_2, Len(rows)))

\* the rows the search of one batch returns: one result per row of the batch,
\* in the order of the batch
BatchResult(rows) == [j \in 1..Len(rows) |-> <<"adv", rows[j][2]>>]

\* x_adv[batch_index_1:batch_index_2] = result
SliceAssign(rows, index_1, result) ==
    [i \in 1..Len(rows) |->
        IF i > index_1 /\ i <= index_1 + Len(result) THEN result[i - index_1] ELSE rows[i]]

InitGenerate ==
    /\ norm \in {"L2", "LInf"}
    /\ targeted \in BOOLEAN
    /\ y \in {"None", "labels"}
    /\ confidence = 0
    /\ binary_search_steps \in {-1, 0}
    /\ max_iter \in {-1, 0}
    /\ max_halving \in {0, 1}
    /\ max_doubling \in {0, 1}
    /\ batch_size \in 0..MaxBatchSize
    /\ eps \in {0, 1}
    /\ initial_const = 1
    /\ learning_rate = LearningRate
    /\ \E n \in 0..MaxRows : x_adv = InputRows(n)
    /\ x_batch = <<>>
    /\ nb_batches = 0
    /\ batch_id = 0
    /\ classifier_calls = 0
    /\ pc = "generate"
    /\ c = <<>>
    /\ c_lower_bound = <<>>
    /\ c_double = <<>>
    /\ best_l2dist = <<>>
    /\ best_x_adv_batch = <<>>
    /\ lr = <<>>
    /\ x_adv_batch = <<>>
    /\ x_adv_batch_tanh = <<>>
    /\ NotYetAssigned
    /\ classifier = PlainLogits
    /\ NoLossCall
    /\ NoGradientCall
    /\ solo = <<>>

searchstate == <<predict, gradient, bss, it, h, d, search, lr, cand, l2dist, loss,
                 attack_success, overall_attack_success, line, solo, report>>

settings == <<norm, targeted, confidence, max_iter, binary_search_steps, max_halving,
              max_doubling, initial_const, eps, learning_rate, loss_in, loss_out, batch_size,
              gradient_in, loss_gradient, classifier>>

\* generate up to its loop: set_params raises on an invalid setting, a targeted
\* attack without labels raises, missing labels are predicted
Generate_Begin ==
    /\ pc = "generate"
    /\ IF SetParamsRaises \/ (targeted /\ y = "None")
       THEN /\ pc' = "raised"
            /\ UNCHANGED <<y, nb_batches, classifier_calls>>
       ELSE /\ pc' = "batches"
            /\ y' = "labels"
            /\ classifier_calls' = classifier_calls + (IF y = "None" THEN 1 ELSE 0)
            /\ nb_batches' = NbBatches(Len(x_adv), batch_size)
    /\ UNCHANGED <<settings, searchstate, x_batch, best, batch_id, x_adv>>

\* one turn of the loop: the rows of the batch are cut out, searched, and the
\* result is written over them
Generate_Batch ==
    /\ pc = "batches"
    /\ batch_id < nb_batches
    /\ LET batch_index_1 == batch_id * batch_size
           batch_index_2 == (batch_id + 1) * batch_size
           rows == Slice(x_adv, batch_index_1, batch_index_2)
       IN /\ x_batch' = rows
          /\ best_x_adv_batch' = BatchResult(rows)
          /\ x_adv' = SliceAssign(x_adv, batch_index_1, BatchResult(rows))
    /\ classifier_calls' = classifier_calls + 1
    /\ batch_id' = batch_id + 1
    /\ UNCHANGED <<settings, searchstate, best_l2dist, y, nb_batches, pc>>

\* after the loop the success rate is logged and x_adv is returned
Generate_Return ==
    /\ pc = "batches"
    /\ batch_id = nb_batches
    /\ classifier_calls' = classifier_calls + (IF targeted THEN 1 ELSE 2)
    /\ pc' = "returned"
    /\ UNCHANGED <<settings, searchstate, x_batch, best, y, nb_batches, batch_id, x_adv>>

NextGenerate == Generate_Begin \/ Generate_Batch \/ Generate_Return

SpecGenerate == InitGenerate /\ [][NextGenerate]_vars

\* calls of one iteration whose line search may double twice
InitDoubling ==
    /\ norm \in {"L2", "LInf"}
    /\ targeted = TRUE
    /\ confidence = 0
    /\ max_iter = 1
    /\ binary_search_steps = IF norm = "L2" THEN 1 ELSE 0
    /\ max_halving \in 1..MaxHalving
    /\ max_doubling = MaxDoubling + 1
    /\ initial_const = IF norm = "L2" THEN Pow2(MaxBSS) ELSE 0
    /\ learning_rate = LearningRate
    /\ eps = IF norm = "L2" THEN 0 ELSE 128
    /\ x_batch \in [Samples -> IF norm = "L2" THEN InputsL2 ELSE InputsLInf]
    /\ pc = IF norm = "L2" THEN "bss" ELSE "start"
    /\ c = [i \in Samples |-> initial_const]
    /\ c_lower_bound = [i \in Samples |-> 0]
    /\ c_double = [i \in Samples |-> TRUE]
    /\ best_l2dist = [i \in Samples |-> Inf]
    /\ best_x_adv_batch = [i \in Samples |-> StartCandidate(x_batch[i])]
    /\ lr = [i \in Samples |-> learning_rate]
    /\ x_adv_batch = [i \in Samples |-> StartCandidate(x_batch[i])]
    /\ x_adv_batch_tanh = [i \in Samples |->
            IF norm = "L2" THEN OriginalToTanh(x_batch[i], ClipValues[1], ClipValues[2])
            ELSE 0]
    /\ x_adv = [i \in Samples |-> XN(x_batch[i])]
    /\ NotYetAssigned
    /\ classifier = PlainLogits
    /\ NoLossCall
    /\ OneBatch
    /\ NoGradientCall
    /\ solo = SoloInit

SpecDoubling == InitDoubling /\ [][NextBoth]_vars

\* learning rates at the lower end of the range of lr: one unit stands for the
\* smallest positive value lr can hold, and half of it is 0
SmallRates == {1, 2}

\* calls whose learning rate is so small that halving it runs out of range
InitUnderflow ==
    /\ norm \in {"L2", "LInf"}
    /\ targeted = TRUE
    /\ confidence = 0
    /\ max_iter = MaxIter
    /\ binary_search_steps = IF norm = "L2" THEN 1 ELSE 0
    /\ max_halving \in 1..MaxHalving
    /\ max_doubling = 1
    /\ initial_const = IF norm = "L2" THEN Pow2(MaxBSS) ELSE 0
    /\ learning_rate \in SmallRates
    /\ eps = IF norm = "L2" THEN 0 ELSE 128
    /\ x_batch \in [Samples -> IF norm = "L2" THEN InputsL2 ELSE InputsLInf]
    /\ pc = IF norm = "L2" THEN "bss" ELSE "start"
    /\ c = [i \in Samples |-> initial_const]
    /\ c_lower_bound = [i \in Samples |-> 0]
    /\ c_double = [i \in Samples |-> TRUE]
    /\ best_l2dist = [i \in Samples |-> Inf]
    /\ best_x_adv_batch = [i \in Samples |-> StartCandidate(x_batch[i])]
    /\ lr = [i \in Samples |-> learning_rate]
    /\ x_adv_batch = [i \in Samples |-> StartCandidate(x_batch[i])]
    /\ x_adv_batch_tanh = [i \in Samples |->
            IF norm = "L2" THEN OriginalToTanh(x_batch[i], ClipValues[1], ClipValues[2])
            ELSE 0]
    /\ x_adv = [i \in Samples |-> XN(x_batch[i])]
    /\ NotYetAssigned
    /\ classifier = PlainLogits
    /\ NoLossCall
    /\ OneBatch
    /\ NoGradientCall
    /\ solo = SoloInit

SpecUnderflow == InitUnderflow /\ [][NextBoth]_vars

\* a classifier that can score the two classes equally
TieLogits == {<<1, 0>>, <<0, 1>>, <<0, 0>>}

\* targeted calls of both variants at confidence 0 against that classifier
InitTie ==
    /\ norm \in {"L2", "LInf"}
    /\ targeted = TRUE
    /\ confidence = 0
    /\ max_iter \in 0..1
    /\ binary_search_steps = IF norm = "L2" THEN 1 ELSE 0
    /\ max_halving \in 1..MaxHalving
    /\ max_doubling \in 1..MaxDoubling
    /\ initial_const = IF norm = "L2" THEN Pow2(MaxBSS) ELSE 0
    /\ learning_rate = LearningRate
    /\ eps = IF norm = "L2" THEN 0 ELSE 128
    /\ x_batch \in [Samples -> IF norm = "L2" THEN InputsL2 ELSE InputsLInf]
    /\ pc = IF norm = "L2" THEN "bss" ELSE "start"
    /\ c = [i \in Samples |-> initial_const]
    /\ c_lower_bound = [i \in Samples |-> 0]
    /\ c_double = [i \in Samples |-> TRUE]
    /\ best_l2dist = [i \in Samples |-> Inf]
    /\ best_x_adv_batch = [i \in Samples |-> StartCandidate(x_batch[i])]
    /\ lr = [i \in Samples |-> learning_rate]
    /\ x_adv_batch = [i \in Samples |-> StartCandidate(x_batch[i])]
    /\ x_adv_batch_tanh = [i \in Samples |->
            IF norm = "L2" THEN OriginalToTanh(x_batch[i], ClipValues[1], ClipValues[2])
            ELSE 0]
    /\ x_adv = [i \in Samples |-> XN(x_batch[i])]
    /\ NotYetAssigned
    /\ classifier = TieLogits
    /\ NoLossCall
    /\ OneBatch
    /\ NoGradientCall
    /\ solo = SoloInit

SpecTie == InitTie /\ [][NextBoth]_vars

\* the calls followed to their end: an L2 call whose c passes the upper bound
\* in its first update, and an LInf call
InitFair ==
    \/ /\ InitL2
       /\ max_iter = 1
       /\ binary_search_steps = MaxBSS
       /\ max_halving = MaxHalving
       /\ initial_const = 64000000
       /\ x_batch = [i \in Samples |-> IF i = 1 THEN 128 ELSE 300]
    \/ /\ InitLInf
       /\ targeted
       /\ max_iter = MaxIter
       /\ max_halving = MaxHalving
       /\ eps = 13
       /\ x_batch = [i \in Samples |-> IF i = 1 THEN 0 ELSE 128]

\* The steps of generate by what they do to its position.  A trial and a commit
\* are told by the loop condition and the counter they advance: the classifier
\* answers every query, so each is possible whenever its loop condition holds.
Advance ==
    \/ /\ pc = "halving" /\ h < max_halving /\ DoHalving # {}
       /\ h' = h + 1
       /\ UNCHANGED <<pc, it, d>>
    \/ /\ pc = "doubling" /\ d < max_doubling /\ DoDoubling # {}
       /\ d' = d + 1
       /\ UNCHANGED <<pc, it, h>>
    \/ /\ pc = "doubling" /\ (d = max_doubling \/ DoDoubling = {})
       /\ it' = it + 1
       /\ pc' = IF it + 1 < max_iter THEN "it" ELSE IF norm = "L2" THEN "update_c" ELSE "finish"
       /\ UNCHANGED <<h, d>>
    \/ L2_BeginRound
    \/ L2_BeginIter
    \/ L2_EndHalving
    \/ L2_UpdateC
    \/ L2_Finish
    \/ LInf_Begin
    \/ LInf_BeginIter
    \/ LInf_EndHalving
    \/ LInf_Finish

position == <<pc, it, h, d>>

\* generate is one sequential computation: whenever a step is possible, a step
\* is taken
FairSpecBoth == InitFair /\ [][NextBoth]_vars /\ WF_position(Advance)

\* ------------------------------------------------------------- properties
\* the margin term of the loss of sample i at a candidate the classifier has
\* been queried on
MarginAt(i, xn) == MarginLoss(predict[xn], Target, confidence, targeted)

\* C1: in the L2 attack with initial_const > 0, after every step (so after
\* every binary-search update round) every sample has c_lower_bound <= c, and
\* no step makes a sample's c_lower_bound smaller than it was.
C1_BracketInvariant ==
    [][\A i \in Samples :
          /\ c_lower_bound'[i] <= c'[i]
          /\ c_lower_bound[i] <= c_lower_bound'[i]]_vars

\* a second round has been completed by a sample that failed the first one
\* (its c_lower_bound was raised) and then succeeded
C1_Witness ==
    /\ norm = "L2"
    /\ pc = "bss"
    /\ bss >= 2
    /\ \E i \in Samples : c_lower_bound[i] > 0 /\ overall_attack_success[i]

\* C2: in every binary-search round of the L2 attack, a sample that had a
\* successful iterate ends the round with a strictly smaller c, and a sample
\* that had none ends it with a strictly larger c.
C2_StrictMove ==
    [][pc = "update_c" =>
          \A i \in Samples :
              IF overall_attack_success[i] THEN c'[i] < c[i] ELSE c'[i] > c[i]]_vars

\* C3: after a round of the L2 attack in which a sample had no successful
\* iterate, its c_lower_bound is the c it had before the update, and its c is
\* doubled while doubling and otherwise raised by (c - c_lower_bound)/2.
C3_FailedRound ==
    [][pc = "update_c" =>
          \A i \in Samples :
              ~overall_attack_success[i] =>
                  /\ c_lower_bound'[i] = c[i]
                  /\ c'[i] = IF c_double[i] THEN 2 * c[i]
                             ELSE c[i] + (c[i] - c_lower_bound[i]) \div 2]_vars

\* C4: in the L2 attack, whenever a sample's best_l2dist is finite, its
\* best_x_adv_batch is a candidate at which the margin term is zero and whose
\* squared distance to the original input is best_l2dist.
C4_BestSlot ==
    norm = "L2" =>
        \A i \in Samples :
            best_l2dist[i] < Inf =>
                /\ best_x_adv_batch[i] \in DOMAIN predict
                /\ MarginAt(i, best_x_adv_batch[i]) = 0
                /\ L2Dist(x_batch[i], best_x_adv_batch[i]) = best_l2dist[i]

\* C5: whenever a line-search step is committed for a sample, the loss at its
\* new candidate is not greater than the loss at the candidate it replaces.
C5_MonotoneCommit ==
    [][(pc = "doubling" /\ pc' # "doubling") =>
          \A i \in UpdateAdv :
              LossLE(loss'[i], Eval(i, x_adv_batch[i], predict).loss)]_vars

\* C6: in the LInf attack every candidate lies inside the box
\* [max(x - eps, clip_min), min(x + eps, clip_max)] of its sample.
C6_BoxContainment ==
    norm = "LInf" =>
        \A i \in Samples :
            /\ XN(ClipMin(i)) <= x_adv_batch[i]
            /\ x_adv_batch[i] <= XN(ClipMax(i))

\* the class the one-hot target selects, and the largest logit of the others
TargetClass(target) == CHOOSE k \in 1..Len(target) : target[k] = 1

LargestOther(zv, target) ==
    SeqMax([k \in 1..(Len(zv) - 1) |->
                IF k < TargetClass(target) THEN zv[k] ELSE zv[k + 1]])

\* C7: the margin loss is >= 0, and is 0 exactly when (targeted) the target
\* logit is at least the largest non-target logit plus confidence, or
\* (untargeted) the largest non-target logit is at least the target logit plus
\* confidence; z_other is the largest logit among the non-target classes,
\* whatever the sign of the logits.
C7_MarginLoss ==
    (norm = "loss" /\ pc = "done") =>
        LET zv == loss_in.z
            other == LargestOther(zv, loss_in.target)
            own == zv[TargetClass(loss_in.target)]
        IN /\ loss_out >= 0
           /\ ZOther(zv, loss_in.target) = other
           /\ loss_out = 0 <=> (IF loss_in.targeted THEN own >= other + loss_in.confidence
                                ELSE other >= own + loss_in.confidence)

\* a targeted call on three all-negative logits has returned 0
C7_Witness ==
    /\ norm = "loss"
    /\ pc = "done"
    /\ loss_out = 0
    /\ loss_in.targeted
    /\ Len(loss_in.z) = 3
    /\ \A k \in 1..3 : loss_in.z[k] < 0

\* C8 as stated: the L2 attack returns best_x_adv_batch, which for a sample
\* with no recorded success is the original input clipped to the valid range.
C8_ClippedFallback ==
    (norm = "L2" /\ pc = "done") =>
        \A i \in Samples :
            /\ x_adv[i] = best_x_adv_batch[i]
            /\ best_l2dist[i] = Inf =>
                   x_adv[i] = XN(Clip(x_batch[i], ClipValues[1], ClipValues[2]))

\* C8: the L2 attack returns best_x_adv_batch, which for a sample with no
\* recorded success is the original input itself, unclipped.
C8_OriginalFallback ==
    (norm = "L2" /\ pc = "done") =>
        \A i \in Samples :
            /\ x_adv[i] = best_x_adv_batch[i]
            /\ best_l2dist[i] = Inf => x_adv[i] = XN(x_batch[i])

\* a search of at least one round has ended without success for an input
\* above the valid range
C8_Witness ==
    /\ norm = "L2"
    /\ pc = "done"
    /\ bss >= 1
    /\ \E i \in Samples : best_l2dist[i] = Inf /\ x_batch[i] > ClipValues[2]

\* C9: in the LInf attack (a) a sample whose loss has reached 0 keeps its flag
\* and its candidate and is not active in any later iteration, the flag being
\* set at iteration boundaries exactly when the margin loss at the candidate
\* is 0; (b) the output of a sample is its original input or a committed
\* candidate with margin loss 0; (c) a sample that has not reached loss 0 is
\* returned as its original input.
C9_LInfOutput ==
    [][\A i \in Samples :
          /\ (pc # "start" /\ attack_success[i]) =>
                 /\ attack_success'[i]
                 /\ x_adv_batch'[i] = x_adv_batch[i]
                 /\ pc' \in {"halving", "doubling"} => ~active'[i]
          /\ pc' \in {"it", "finish"} =>
                 (attack_success'[i] <=>
                      MarginLoss(predict'[x_adv_batch'[i]], Target, confidence, targeted) = 0)
          /\ pc' = "done" =>
                 \/ x_adv'[i] = XN(x_batch[i])
                 \/ /\ x_adv'[i] = x_adv_batch[i]
                    /\ attack_success[i]
                    /\ MarginAt(i, x_adv_batch[i]) = 0
          /\ (pc' = "done" /\ ~attack_success[i]) => x_adv'[i] = XN(x_batch[i])]_vars

\* a batch has ended with one sample returned at a committed successful
\* candidate and another, which had moved, returned at its original input
C9_Witness ==
    /\ norm = "LInf"
    /\ pc = "done"
    /\ \E i \in Samples : attack_success[i] /\ x_adv[i] # XN(x_batch[i])
    /\ \E j \in Samples :
           /\ ~attack_success[j]
           /\ x_adv_batch_tanh[j] # OriginalToTanh(x_batch[j], ClipMin(j), ClipMax(j))
           /\ x_adv[j] = XN(x_batch[j])

\* C10: in both attacks a sample is returned different from its original
\* input only if the classifier was queried on the original input and the
\* margin loss there is not 0.
C10_SuccessAtOriginal ==
    pc = "done" =>
        \A i \in Samples :
            x_adv[i] # XN(x_batch[i]) =>
                /\ XN(x_batch[i]) \in DOMAIN predict
                /\ MarginAt(i, XN(x_batch[i])) # 0

\* a batch has ended with one sample already successful at its original input
\* returned unchanged while another sample of the batch was perturbed
C10_Witness ==
    /\ pc = "done"
    /\ it >= 1
    /\ \E i \in Samples :
           /\ XN(x_batch[i]) \in DOMAIN predict
           /\ MarginAt(i, XN(x_batch[i])) = 0
           /\ x_adv[i] = XN(x_batch[i])
    /\ \E j \in Samples : x_adv[j] # XN(x_batch[j])

\* C11: the row returned for a sample in a batch is the row returned when
\* generate is called on that sample alone (compared for the samples whose c
\* and activity were the same in both runs whenever a round or pass started,
\* and whose runs end after the same round).
C11_BatchIndependence ==
    pc = "done" =>
        \A i \in Samples :
            (solo.ok[i] /\ (bss = binary_search_steps \/ solo.same_c[i])) =>
                x_adv[i] = SoloOutput(i)

\* C12: generate cuts the n input rows into ceil(n / batch_size) groups of
\* consecutive rows, taken in order, each of batch_size rows except possibly the
\* last; a group holds rows no earlier group held, and when generate returns
\* every output row i holds the result for input row i.
C12_BatchPartition ==
    [][/\ (pc = "batches" /\ batch_id' = batch_id + 1) =>
             /\ Len(x_batch') >= 1
             /\ x_batch' = [j \in 1..Len(x_batch') |-> <<"x", batch_id * batch_size + j>>]
             /\ \/ Len(x_batch') = batch_size
                \/ batch_id' = nb_batches /\ Len(x_batch') < batch_size
             /\ batch_id * batch_size + Len(x_batch') <= Len(x_adv)
             /\ x_adv' = [i \in 1..Len(x_adv) |->
                             IF i \in (batch_id * batch_size + 1)..(batch_id * batch_size + Len(x_batch'))
                             THEN <<"adv", i>> ELSE x_adv[i]]
       /\ pc' = "returned" =>
             /\ batch_id = nb_batches
             /\ nb_batches * batch_size >= Len(x_adv)
             /\ (nb_batches - 1) * batch_size < Len(x_adv)
             /\ x_adv' = [i \in 1..Len(x_adv) |-> <<"adv", i>>]
      ]_vars

\* five rows in batches of two: groups of 2, 2 and 1
C12_Witness ==
    /\ pc = "returned"
    /\ Len(x_adv) = 5
    /\ batch_size = 2
    /\ batch_id = 3

\* C13: a call of generate that asks for a targeted attack without labels, or
\* whose setting is invalid (binary_search_steps < 0 for L2, eps <= 0 for LInf,
\* max_iter < 0, max_halving < 1, max_doubling < 1, batch_size < 1), ends in an
\* error with its first step: the classifier was never called, no batch was
\* processed, no row was written, nothing is returned, and no setting is changed.
C13_ErrorBeforeWork ==
    /\ []((\/ targeted /\ y = "None"
           \/ norm = "L2" /\ binary_search_steps < 0
           \/ norm = "LInf" /\ eps <= 0
           \/ max_iter < 0
           \/ max_halving < 1
           \/ max_doubling < 1
           \/ batch_size < 1) =>
              /\ pc \in {"generate", "raised"}
              /\ classifier_calls = 0
              /\ batch_id = 0
              /\ nb_batches = 0
              /\ x_adv = InputRows(Len(x_adv)))
    /\ [][settings' = settings]_vars

\* a call whose only fault is a batch size of zero has raised
C13_Witness ==
    /\ pc = "raised"
    /\ batch_size = 0
    /\ y = "labels"
    /\ max_iter = 0 /\ binary_search_steps = 0 /\ max_halving = 1 /\ max_doubling = 1
    /\ eps = 1
    /\ Len(x_adv) = MaxRows

\* C14: under a valid setting and whatever the classifier answers, generate
\* ends and returns one row per input row.  On the way a batch has at most
\* binary_search_steps rounds (none is counted for LInf, whose single round has
\* no counter), a round at most max_iter iterations, an iteration at most
\* max_halving halving trials and max_doubling doubling trials, each trial
\* counted, and one commit.
C14_Termination ==
    /\ [](/\ bss <= binary_search_steps
          /\ (norm = "LInf" => bss = 0)
          /\ it <= max_iter
          /\ h <= max_halving
          /\ d <= max_doubling)
    /\ [][/\ (pc = "halving" /\ pc' = "halving") => h' = h + 1
          /\ (pc = "doubling" /\ pc' = "doubling") => d' = d + 1
          /\ (pc = "doubling" /\ pc' # "doubling") => it' = it + 1
          /\ pc \in {"halving", "doubling"} => bss' = bss
          /\ pc = "halving" => it' = it
          /\ pc = "done" => pc' = "done"]_vars
    /\ <>(pc = "done" /\ DOMAIN x_adv = Samples)

\* a run has ended although a sample's c went past the upper bound and the
\* last line search found no step
C14_Witness ==
    /\ pc = "done"
    /\ norm = "L2"
    /\ \E i \in Samples : c[i] >= CUpperBound
    /\ \A i \in Samples : best_lr[i] = 0
    /\ h = max_halving

\* C15: L2.  A sample whose c has reached the upper bound keeps a c at or above
\* it, is not active in any line search that follows, is in no halving trial,
\* doubling trial or commit, and its best_l2dist and best_x_adv_batch stay as
\* they are.  While rounds are left, generate leaves the binary search at the
\* start of a round exactly when every sample's c has reached the upper bound.
C15_Saturated ==
    [][/\ \A i \in Samples :
            c[i] >= CUpperBound =>
                /\ c'[i] >= CUpperBound
                /\ best_l2dist'[i] = best_l2dist[i]
                /\ best_x_adv_batch'[i] = best_x_adv_batch[i]
                /\ pc' \in {"halving", "doubling"} => ~active'[i]
                /\ pc \in {"halving", "doubling"} =>
                      /\ i \notin DoHalving /\ i \notin DoDoubling /\ i \notin UpdateAdv
                      /\ loss'[i] = loss[i] /\ l2dist'[i] = l2dist[i]
                      /\ x_adv_batch'[i] = x_adv_batch[i]
                      /\ x_adv_batch_tanh'[i] = x_adv_batch_tanh[i]
       /\ (pc = "bss" /\ bss < binary_search_steps) =>
             ((pc' = "done") <=> \A i \in Samples : c[i] >= CUpperBound)
      ]_vars

\* a line search runs for one sample while the other's c is past the bound
C15_Witness ==
    /\ pc = "doubling"
    /\ c[1] >= CUpperBound
    /\ active[2]
    /\ halving[2] >= 1
    /\ best_lr[2] > 0

\* C16 as stated: before the chain-rule factors, the gradient is the weighted
\* logit-gradient difference plus 2 * c * (x_adv - x).
C16_DistanceTermTimesC ==
    pc = "done" =>
        LET g == gradient_in
            logit_gradient == g.class_gradient[IndexAdd(g.z, g.target, g.targeted)]
                                - g.class_gradient[IndexSub(g.z, g.target, g.targeted)]
        IN loss_gradient.sum - g.c * logit_gradient = 2 * g.c * (g.x_adv - g.x)

\* C16, amended: before the chain-rule factors, the gradient is c times the
\* logit-gradient difference plus 2 * (x_adv - x); the distance term does not
\* depend on c.
C16_DistanceTerm ==
    pc = "done" =>
        LET g == gradient_in
            logit_gradient == g.class_gradient[IndexAdd(g.z, g.target, g.targeted)]
                                - g.class_gradient[IndexSub(g.z, g.target, g.targeted)]
        IN loss_gradient.sum - g.c * logit_gradient = 2 * (g.x_adv - g.x)

\* a gradient was taken away from x with a c other than one
C16_Witness ==
    /\ pc = "done"
    /\ norm = "gradient"
    /\ gradient_in.c = 3
    /\ gradient_in.x_adv = 200
    /\ gradient_in.class_gradient = <<1, -1>>
    /\ loss_gradient.sum = 2 * 72 + 3 * (IF gradient_in.targeted THEN 2 ELSE -2)

\* the trials of sample i in the current pass whose loss is below the loss
\* stored when the pass began
BetterTrials(i) == {k \in 1..Len(trials[i]) : LossLT(trials[i][k].loss, prev_loss[i])}

\* the earliest trial of sample i with the lowest loss of the pass
LowestTrial(i) ==
    CHOOSE k \in 1..Len(trials[i]) :
        \A j \in 1..Len(trials[i]) :
            /\ LossLE(trials[i][k].loss, trials[i][j].loss)
            /\ j < k => LossLT(trials[i][k].loss, trials[i][j].loss)

\* C17: when a line search ends, an active sample one of whose trials had a loss
\* strictly below the loss stored at the start of the pass moves by the rate of
\* its lowest-loss trial (the earliest, on ties), and its candidate, tanh
\* coordinate and logits are those of that point; every other sample, active
\* or not, keeps its candidate, tanh coordinate and logits.  No trial changes a
\* candidate, and only active samples are tried.
C17_CommitFrame ==
    [][/\ (pc = "doubling" /\ pc' # "doubling") =>
             \A i \in Samples :
                 IF active[i] /\ BetterTrials(i) # {}
                 THEN LET rate == trials[i][LowestTrial(i)].rate
                      IN /\ rate > 0
                         /\ x_adv_batch_tanh'[i] = x_adv_batch_tanh[i] + (rate * perturbation_tanh[i]) \div 2
                         /\ x_adv_batch_tanh'[i] # x_adv_batch_tanh[i]
                         /\ x_adv_batch'[i] = TanhToOriginal(x_adv_batch_tanh'[i], ClipMin(i), ClipMax(i))
                         /\ z'[i] = predict'[x_adv_batch'[i]]
                 ELSE /\ x_adv_batch_tanh'[i] = x_adv_batch_tanh[i]
                      /\ x_adv_batch'[i] = x_adv_batch[i]
                      /\ z'[i] = z[i]
       /\ (pc \in {"halving", "doubling"} /\ pc' \in {"halving", "doubling"}) =>
             /\ UNCHANGED cand
             /\ \A i \in Samples : ~active[i] => trials'[i] = <<>>
      ]_vars

\* a pass is about to end in which the second sample's later trial tied with
\* its first, below the stored loss, while the first sample found nothing
C17_Witness ==
    /\ pc = "doubling"
    /\ d = max_doubling
    /\ active[1] /\ Len(trials[1]) >= 1 /\ BetterTrials(1) = {}
    /\ active[2] /\ Len(trials[2]) = 2 /\ BetterTrials(2) = {1, 2}
    /\ trials[2][1].loss = trials[2][2].loss
    /\ best_lr[2] = trials[2][1].rate

\* the doubling trials of sample i in the current pass
DoublingTrials(i) == {k \in 1..Len(trials[i]) : trials[i][k].phase = "doubling"}

\* C18: in every pass and for every sample, a doubling trial follows a single
\* halving trial and nothing else (halving count exactly 1; a sample with a
\* halving count of 2 or more has no doubling trial), it tries twice the rate
\* of the trial before it, and that trial's loss was at or below every loss
\* recorded before in the pass, the stored loss included; so no doubling
\* trial follows one whose loss exceeded the best.  There are at most
\* max_doubling doubling trials.
C18_Doubling ==
    \A i \in Samples :
        LET t == trials[i]
        IN /\ Cardinality(DoublingTrials(i)) <= max_doubling
           /\ halving[i] >= 2 => DoublingTrials(i) = {}
           /\ DoublingTrials(i) # {} =>
                 /\ halving[i] = 1
                 /\ t[1].phase = "halving"
                 /\ DoublingTrials(i) = 2..Len(t)
           /\ \A k \in DoublingTrials(i) :
                 /\ t[k].rate = 2 * t[k - 1].rate
                 /\ LossLE(t[k - 1].loss, prev_loss[i])
                 /\ \A j \in 1..(k - 1) : LossLE(t[k - 1].loss, t[j].loss)

\* the first sample doubled twice; the second doubled once, found a loss above
\* its best and was left out of the second doubling trial
C18_Witness ==
    /\ pc = "doubling"
    /\ d = 2
    /\ Len(trials[1]) = 3
    /\ Len(trials[2]) = 2
    /\ trials[2][2].phase = "doubling"
    /\ LossLT(trials[2][1].loss, trials[2][2].loss)

\* lr is learning_rate times a power of two
PowerOfTwoTimesRate(v) ==
    \E j \in 0..(MaxIter * MaxHalving + MaxDoubling + 1) :
        v * Pow2(j) = learning_rate \/ v = learning_rate * Pow2(j)

C20_StoredLoss ==
    pc = "it" =>
        \A i \in Samples :
            LET e == Eval(i, x_adv_batch[i], predict)
            IN /\ loss[i] = e.loss
               /\ norm = "L2" => /\ l2dist[i] = e.l2dist
                                 /\ attack_success[i] = LossSuccess(e.loss)

\* the returned rows at which the attack's success condition holds
SucceededRows ==
    {i \in Samples : MarginLoss(predict[x_adv[i]], Target, confidence, targeted) = 0}

\* C21: when a targeted call has returned, every returned row whose margin loss
\* is 0 is classified as the target class by the argmax of its scores, and the
\* success count covers all those rows.
C21_SuccessCounted ==
    (pc = "done" /\ targeted) =>
        /\ \A i \in SucceededRows : adv_preds[i] = ArgMax(Target)
        /\ success_rate >= Cardinality(SucceededRows)

\* C22: L2.  The step that starts a binary-search round leaves c, c_lower_bound,
\* c_double and the best slot as they are and sets every sample's candidate to
\* the original input, its tanh coordinate to the transform of the original
\* input, its rate to learning_rate and its stored logits, distance, loss and
\* success flags to their values at the original input under the current c;
\* the first line search of the round starts its trackers anew from those; and
\* a cleared c_double is never set again.
C22_RoundReset ==
    [][/\ (norm = "L2" /\ pc = "bss" /\ pc' \in {"it", "update_c"}) =>
            /\ UNCHANGED <<c, c_lower_bound, c_double, best_l2dist, best_x_adv_batch>>
            /\ it' = 0
            /\ \A i \in Samples :
                    LET e == Eval(i, XN(x_batch[i]), predict')
                    IN /\ lr'[i] = learning_rate
                       /\ x_adv_batch'[i] = XN(x_batch[i])
                       /\ x_adv_batch_tanh'[i] =
                              OriginalToTanh(x_batch[i], ClipValues[1], ClipValues[2])
                       /\ z'[i] = e.z
                       /\ l2dist'[i] = e.l2dist
                       /\ loss'[i] = e.loss
                       /\ attack_success'[i] = LossSuccess(e.loss)
                       /\ overall_attack_success'[i] = LossSuccess(e.loss)
       /\ (norm = "L2" /\ pc = "it" /\ pc' = "halving") =>
            /\ h' = 0
            /\ \A i \in Samples :
                    /\ active'[i] = (c[i] < CUpperBound /\ lr[i] > 0)
                    /\ prev_loss'[i] = loss[i]
                    /\ best_loss'[i] = loss[i]
                    /\ best_lr'[i] = 0
                    /\ halving'[i] = 0
                    /\ trials'[i] = <<>>
       /\ \A i \in Samples : ~c_double[i] => ~c_double'[i]
      ]_vars

\* a second round has just started for a sample that moved in the first round
\* and left the doubling phase, while the other sample is still doubling
C22_Witness ==
    /\ norm = "L2"
    /\ bss >= 1
    /\ pc = "it"
    /\ it = 0
    /\ \E i, j \in Samples :
            /\ ~c_double[i]
            /\ best_lr[i] > 0
            /\ best_x_adv_batch[i] # XN(x_batch[i])
            /\ x_adv_batch[i] = XN(x_batch[i])
            /\ lr[i] = learning_rate
            /\ c_double[j]

====
